---- MODULE Spec2Model ----
(***************************************************************************)
(* A model of foundation::bvh::SAHPartitioner (bvh_sahpartitioner.h): the  *)
(* Surface-Area-Heuristic partitioner used to build bounding volume        *)
(* hierarchies.                                                            *)
(*                                                                         *)
(* Vectors are functions over 0..size-1, as the code indexes them.         *)
(* ValueType is modelled by exact non-negative rationals over integer      *)
(* coordinates, extended with the two non-finite outcomes of the division  *)
(* by bbox.half_surface_area(): +infinity (x / 0, x > 0) and NaN (0 / 0).  *)
(***************************************************************************)
EXTENDS Integers, Sequences, FiniteSets

\* ------------------------------------------------------------------ bounds

\* Number of items of the box array handed to the partitioner.
MaxItems == 3

\* The constructor's max_leaf_size is drawn from 1..MaxLeafSize.
MaxLeafSize == 2

\* The constructor's cost weights are drawn from 1..MaxCost.
MaxCost == 2

\* ------------------------------------------------- the bounding box (AABB)

\* Tree::Dimension.
Dimension == 3

Dims == 0 .. (Dimension - 1)

\* std::numeric_limits<ValueType>::max(): larger than every coordinate and
\* every cost the bounded model can produce.
ValueMax == 1000000

Min(a, b) == IF a < b THEN a ELSE b

Max(a, b) == IF a > b THEN a ELSE b

Box(lo, hi) == [min |-> lo, max |-> hi]

\* AABB::invalidate(): the empty box, min = +max, max = -max on every axis.
Invalidate == Box([d \in Dims |-> ValueMax], [d \in Dims |-> 0 - ValueMax])

\* AABB::insert(other): grow the box to include another box.
Insert(acc, b) ==
    Box([d \in Dims |-> Min(acc.min[d], b.min[d])],
        [d \in Dims |-> Max(acc.max[d], b.max[d])])

RECURSIVE SumPairs(_, _)
SumPairs(e, pairs) ==
    IF pairs = {} THEN 0
    ELSE LET p == CHOOSE q \in pairs : TRUE
         IN e[p[1]] * e[p[2]] + SumPairs(e, pairs \ {p})

\* AABB::half_surface_area(): the sum of the products of the extents over
\* every pair of axes (xy + xz + yz in three dimensions).
HalfSurfaceArea(b) ==
    LET e == [d \in Dims |-> b.max[d] - b.min[d]]
    IN SumPairs(e, {p \in Dims \X Dims : p[1] < p[2]})

\* ------------------------------------------------ the axis sort predicate

\* Twice the centroid coordinate of a box along axis dim.
Center2(b, dim) == b.min[dim] + b.max[dim]

\* The predicate without a tie-break: boxes of equal centroid are not
\* ordered.
PredicateCentroidOnly(bxs, dim, lhs, rhs) ==
    Center2(bxs[lhs], dim) < Center2(bxs[rhs], dim)

\* BboxSortPredicate(bboxes, dim)(lhs, rhs): centroid order along dim, ties
\* broken by item index.
Predicate(bxs, dim, lhs, rhs) ==
    \/ Center2(bxs[lhs], dim) < Center2(bxs[rhs], dim)
    \/ /\ Center2(bxs[lhs], dim) = Center2(bxs[rhs], dim)
       /\ lhs < rhs

\* Insert x into the sorted sequence s, before the first element it precedes.
RECURSIVE InsertSorted(_, _, _, _)
InsertSorted(s, x, bxs, dim) ==
    IF s = <<>> THEN <<x>>
    ELSE IF Predicate(bxs, dim, x, Head(s)) THEN <<x>> \o s
    ELSE <<Head(s)>> \o InsertSorted(Tail(s), x, bxs, dim)

RECURSIVE StdSort(_, _, _)
StdSort(s, bxs, dim) ==
    IF s = <<>> THEN <<>>
    ELSE InsertSorted(StdSort(Tail(s), bxs, dim), Head(s), bxs, dim)

\* Another implementation of std::sort: it keeps elements the predicate
\* does not order in the order it found them, where StdSort reverses them.
RECURSIVE StableSort(_, _, _)
StableSort(s, bxs, dim) ==
    IF s = <<>> THEN <<>>
    ELSE InsertSorted(StableSort(SubSeq(s, 1, Len(s) - 1), bxs, dim),
                      s[Len(s)], bxs, dim)

\* A sort that writes its first output over its last slot.
SortRangeLossy(ind, begin, count, bxs, dim) ==
    LET sorted == StdSort([k \in 1 .. count |-> ind[begin + k - 1]], bxs, dim)
    IN [p \in DOMAIN ind |->
          IF p = begin + count - 1 THEN sorted[1]
          ELSE IF begin <= p /\ p < begin + count THEN sorted[p - begin + 1]
          ELSE ind[p]]

\* A sort that runs one slot past the end of the range.
SortRangeOverrun(ind, begin, count, bxs, dim) ==
    LET n == IF begin + count \in DOMAIN ind THEN count + 1 ELSE count
        sorted == StdSort([k \in 1 .. n |-> ind[begin + k - 1]], bxs, dim)
    IN [p \in DOMAIN ind |->
          IF begin <= p /\ p < begin + n THEN sorted[p - begin + 1]
          ELSE ind[p]]

\* std::sort(&m_indices[begin], &m_indices[begin] + count, predicate).
SortRange(ind, begin, count, bxs, dim) ==
    LET sorted == StdSort([k \in 1 .. count |-> ind[begin + k - 1]], bxs, dim)
    IN [p \in DOMAIN ind |->
          IF begin <= p /\ p < begin + count THEN sorted[p - begin + 1]
          ELSE ind[p]]

\* std::sort as the implementation sorter performs it: the standard leaves
\* the order of elements the predicate does not order to the implementation
\* ("unstable": StdSort, "stable": StableSort).
SortRangeBy(sorter, ind, begin, count, bxs, dim) ==
    IF sorter = "stable"
    THEN LET sorted == StableSort([k \in 1 .. count |-> ind[begin + k - 1]],
                                  bxs, dim)
         IN [p \in DOMAIN ind |->
               IF begin <= p /\ p < begin + count THEN sorted[p - begin + 1]
               ELSE ind[p]]
    ELSE SortRange(ind, begin, count, bxs, dim)

\* -------------------------------------------------------- the partitioner

\* ensure_minimum_size(vec, n): grow the vector to n zero-filled slots when
\* it is shorter; never shrink it.
EnsureMinimumSize(vec, n) ==
    LET size == Cardinality(DOMAIN vec)
    IN IF size < n
       THEN [i \in 0 .. (n - 1) |-> IF i < size THEN vec[i] ELSE 0]
       ELSE vec

\* The scratch buffer resized to exactly count - 1 slots, shrinking it when
\* it is longer.
ResizeLeftAreas(areas, count) ==
    [i \in 0 .. (count - 2) |-> IF i \in DOMAIN areas THEN areas[i] ELSE 0]

\* ensure_minimum_size(m_left_areas, count - 1);
GrowLeftAreas(areas, count) == EnsureMinimumSize(areas, count - 1)

\* initialize() without the loop that fills the vector.
InitializeIndicesUnfilled(size) == [i \in 0 .. (size - 1) |-> 0]

\* initialize(size): m_indices = [0, 1, ..., size - 1].
InitializeIndices(size) == [i \in 0 .. (size - 1) |-> i]

\* The loop of compute_bbox assigning each box instead of inserting it.
RECURSIVE ComputeBBoxFromAssigning(_, _, _, _, _)
ComputeBBoxFromAssigning(bxs, ind, i, end, acc) ==
    IF i < end
    THEN ComputeBBoxFromAssigning(bxs, ind, i + 1, end, bxs[ind[i]])
    ELSE acc

\* compute_bbox(bboxes, begin, end).
RECURSIVE ComputeBBoxFrom(_, _, _, _, _)
ComputeBBoxFrom(bxs, ind, i, end, acc) ==
    IF i < end
    THEN ComputeBBoxFrom(bxs, ind, i + 1, end, Insert(acc, bxs[ind[i]]))
    ELSE acc

ComputeBBox(bxs, ind, begin, end) ==
    ComputeBBoxFrom(bxs, ind, begin, end, Invalidate)

\* The leaf short-circuit tested with < in place of <=.
IsSmallLeafStrict(count, max_leaf_size) == count < max_leaf_size

\* if (count <= m_max_leaf_size) return end;
IsSmallLeaf(count, max_leaf_size) == count <= max_leaf_size

\* The left-to-right sweep: m_left_areas[i] for i = 0 .. count - 2.
RECURSIVE LeftSweep(_, _, _, _, _, _, _)
LeftSweep(areas, acc, i, bxs, ind, begin, count) ==
    IF i < count - 1
    THEN LET acc2 == Insert(acc, bxs[ind[begin + i]])
         IN LeftSweep([areas EXCEPT ![i] = HalfSurfaceArea(acc2)],
                      acc2, i + 1, bxs, ind, begin, count)
    ELSE areas

\* The comparison also replacing the best split on an equal cost.
KeepsLowestOrEqual(best_split_cost, split_cost) == best_split_cost >= split_cost

\* if (best_split_cost > split_cost)
KeepsLowest(best_split_cost, split_cost) == best_split_cost > split_cost

\* The left cost taken without the weight of the left child's item count.
LeftCostUnweighted(areas, i) == areas[i - 1]

\* const ValueType left_cost = m_left_areas[i - 1] * i;
LeftCost(areas, i) == areas[i - 1] * i

\* The right cost weighted by the item count of the whole range.
RightCostOfAll(acc, count, i) == HalfSurfaceArea(acc) * count

\* const ValueType right_cost =
\*     bbox_accumulator.half_surface_area() * (count - i);
RightCost(acc, count, i) == HalfSurfaceArea(acc) * (count - i)

\* The right-to-left sweep: i = count - 1 down to 1, tracking the best split.
RECURSIVE RightSweep(_, _, _, _, _, _, _, _, _)
RightSweep(best, acc, i, areas, bxs, ind, begin, count, dim) ==
    IF i > 0
    THEN LET acc2       == Insert(acc, bxs[ind[begin + i]])
             left_cost  == LeftCost(areas, i)
             right_cost == RightCost(acc2, count, i)
             split_cost == left_cost + right_cost
             best2      == IF KeepsLowest(best.cost, split_cost)
                           THEN [cost |-> split_cost, dim |-> dim, pivot |-> i]
                           ELSE best
         IN RightSweep(best2, acc2, i - 1, areas, bxs, ind, begin, count, dim)
    ELSE best

\* The loop over the dimensions: sort, left sweep, right sweep.
RECURSIVE SweepDims(_, _, _, _, _)
SweepDims(st, dim, bxs, begin, count) ==
    IF dim < Dimension
    THEN LET ind2   == SortRangeBy(st.sorter, st.indices, begin, count,
                                   bxs, dim)
             areas2 == LeftSweep(st.left_areas, Invalidate, 0,
                                 bxs, ind2, begin, count)
             best2  == RightSweep(st.best, Invalidate, count - 1, areas2,
                                  bxs, ind2, begin, count, dim)
         IN SweepDims([indices |-> ind2, left_areas |-> areas2, best |-> best2,
                       sorter |-> st.sorter],
                      dim + 1, bxs, begin, count)
    ELSE st

\* m_interior_node_traversal_cost +
\*     best_split_cost / bbox.half_surface_area() * m_triangle_intersection_cost
\* as an extended value: the finite fraction num / den, +infinity or NaN.
SplitCost(best_split_cost, hsa, traversal_cost, intersection_cost) ==
    IF hsa = 0
    THEN IF best_split_cost = 0
         THEN [kind |-> "nan", num |-> 0, den |-> 1]
         ELSE [kind |-> "inf", num |-> 0, den |-> 1]
    ELSE [kind |-> "fin",
          num  |-> traversal_cost * hsa + best_split_cost * intersection_cost,
          den  |-> hsa]

\* leaf_cost <= split_cost on extended values: false when split_cost is NaN.
LessEq(leaf_cost, split_cost) ==
    CASE split_cost.kind = "nan" -> FALSE
      [] split_cost.kind = "inf" -> TRUE
      [] OTHER -> leaf_cost * split_cost.den <= split_cost.num

\* leaf_cost > split_cost on extended values: false when split_cost is NaN.
Greater(leaf_cost, split_cost) ==
    CASE split_cost.kind = "nan" -> FALSE
      [] split_cost.kind = "inf" -> FALSE
      [] OTHER -> leaf_cost * split_cost.den > split_cost.num

\* The leaf test with the comparison reversed.
LeafIsCheaperReversed(leaf_cost, split_cost) == Greater(leaf_cost, split_cost)

\* if (leaf_cost <= split_cost) return end;
LeafIsCheaper(leaf_cost, split_cost) == LessEq(leaf_cost, split_cost)

\* The re-sort skipped for the last two axes instead of the last one.
NeedsResortEarly(best_split_dim) == best_split_dim < Dimension - 2

\* if (best_split_dim < Tree::Dimension - 1): the range is sorted again
\* unless the winning axis is the one the loop sorted last.
NeedsResort(best_split_dim) == best_split_dim < Dimension - 1

\* The returned split point taken one slot too low.
SplitPointBelow(begin, best_split_pivot) == begin + best_split_pivot - 1

\* return begin + best_split_pivot;
SplitPoint(begin, best_split_pivot) == begin + best_split_pivot

\* The short-circuit returning the first position of the range.
SmallLeafReturnsBegin(begin, end) == begin

\* if (count <= m_max_leaf_size) return end;
SmallLeafReturn(begin, end) == end

\* partition(bboxes, begin, end, bbox), for count > 1, in a build whose
\* std::sort is sorter: the returned value, the two vectors as the call
\* leaves them, and the locals at its end.
PartitionCallBy(sorter, bxs, ind, areas, begin, end, bbox, max_leaf_size, traversal_cost, intersection_cost) ==
    LET count == end - begin
        none  == [cost |-> ValueMax, dim |-> 0, pivot |-> 0]
    IN IF IsSmallLeaf(count, max_leaf_size)
       THEN [ret |-> SmallLeafReturn(begin, end), indices |-> ind,
             left_areas |-> areas, evaluated |-> FALSE, best |-> none,
             split_cost |-> [kind |-> "fin", num |-> 0, den |-> 1]]
       ELSE
         LET st == SweepDims([indices    |-> ind,
                              left_areas |-> GrowLeftAreas(areas, count),
                              best       |-> none,
                              sorter     |-> sorter],
                             0, bxs, begin, count)
             split_cost == SplitCost(st.best.cost, HalfSurfaceArea(bbox),
                                     traversal_cost, intersection_cost)
             leaf_cost  == count * intersection_cost
         IN IF LeafIsCheaper(leaf_cost, split_cost)
            THEN [ret |-> end, indices |-> st.indices,
                  left_areas |-> st.left_areas,
                  evaluated |-> TRUE, best |-> st.best,
                  split_cost |-> split_cost]
            ELSE [ret |-> SplitPoint(begin, st.best.pivot),
                  indices |->
                      IF NeedsResort(st.best.dim)
                      THEN SortRangeBy(sorter, st.indices, begin, count,
                                       bxs, st.best.dim)
                      ELSE st.indices,
                  left_areas |-> st.left_areas,
                  evaluated |-> TRUE, best |-> st.best,
                  split_cost |-> split_cost]

\* partition(bboxes, begin, end, bbox), for count > 1.
PartitionCall(bxs, ind, areas, begin, end, bbox, max_leaf_size, traversal_cost, intersection_cost) ==
    PartitionCallBy("unstable", bxs, ind, areas, begin, end, bbox,
                    max_leaf_size, traversal_cost, intersection_cost)

\* ------------------------------------------------------------------ state

VARIABLES
    bboxes,                           \* the caller's box array (read-only)
    m_max_leaf_size,
    m_interior_node_traversal_cost,
    m_triangle_intersection_cost,
    m_indices,
    m_left_areas,
    call,                             \* the last operation and its result
    returned,                         \* what compute_bbox or get_item_ordering
                                      \* handed back to the caller
    size_given,                       \* history: the size last given to initialize
    largest_count,                    \* history: the largest count that passed
                                      \* the leaf short-circuit
    todo,                             \* the builder's stack of ranges to split
    leaves,                           \* the ranges the builder made leaves
    twin,                             \* a second instance, given the same calls
    threads,                          \* two calls of partition in progress on
                                      \* the instance, each with its locals
    interleaved,                      \* history: a call took a step while the
                                      \* other was in progress
    frame,                            \* one call of partition taken line by
                                      \* line: its locals and its position
    orders,                           \* two calls on disjoint ranges, made in
                                      \* one order and in the other
    entities,                         \* the names of the entities of a container
    suggestion,                       \* what get_name_suggestion returned last
    explorer                          \* the project explorer: its tree, its
                                      \* entity editors, what its last slot did

vars == <<bboxes, m_max_leaf_size, m_interior_node_traversal_cost,
          m_triangle_intersection_cost, m_indices, m_left_areas, call,
          returned, size_given, largest_count, todo, leaves, twin,
          threads, interleaved, frame, orders, entities, suggestion,
          explorer>>

\* The partitioner and what it handed back.
instance == <<bboxes, m_max_leaf_size, m_interior_node_traversal_cost,
              m_triangle_intersection_cost, m_indices, m_left_areas, call,
              returned, size_given, largest_count>>

\* The callers of the partitioner.
callers == <<todo, leaves>>

\* The project explorer of the studio.
studio == <<entities, suggestion, explorer>>

\* What the operations of the partitioner, taken whole, do not touch.
rest == <<studio, frame, orders>>

\* What lies outside the instance.
outside == <<callers, twin, threads, interleaved, rest>>

config == <<bboxes, m_max_leaf_size, m_interior_node_traversal_cost,
            m_triangle_intersection_cost>>

Point(x, y, z) == [d \in Dims |-> IF d = 0 THEN x ELSE IF d = 1 THEN y ELSE z]

\* The boxes the items are drawn from: three point boxes (zero half surface
\* area, coincident when equal, pairwise apart along one or two axes) and the
\* unit cube.
Boxes ==
    {Box(p, p) : p \in {Point(1, 0, 0), Point(0, 1, 0), Point(1, 1, 1)}}
        \cup {Box(Point(0, 0, 0), Point(1, 1, 1))}

NoCall ==
    [op |-> "none", begin |-> 0, end |-> 0, ret |-> 0, evaluated |-> FALSE,
     best |-> [cost |-> ValueMax, dim |-> 0, pivot |-> 0],
     split_cost |-> [kind |-> "fin", num |-> 0, den |-> 1]]

\* Nothing handed back: the operation returns void or a position.
NoReturn == [bbox |-> Invalidate, ordering |-> <<>>]

\* The partitioner as its constructor leaves it: both vectors empty.
Constructed ==
    /\ m_indices = <<>>
    /\ m_left_areas = <<>>
    /\ call = NoCall
    /\ returned = NoReturn
    /\ size_given = 0
    /\ largest_count = 0

\* A second instance as its constructor leaves it.
NoTwin == [indices |-> <<>>, left_areas |-> <<>>, ret |-> 0]

\* No name was suggested yet.
NoSuggestion == [status |-> "none", prefix |-> <<>>, name |-> <<>>]

\* The types of the items slot_create_entity creates.
ItemBSDF == "ItemBSDF"

ItemMaterial == "ItemMaterial"

ItemSurfaceShader == "ItemSurfaceShader"

ItemTypes == {ItemBSDF, ItemMaterial, ItemSurfaceShader}

\* No entity editor window of a type is open.
NoEditorWindow == [open |-> FALSE, name_suggestion |-> <<>>]

\* The explorer of an empty project: an empty tree, no editor window, no
\* slot called yet.
NoExplorer ==
    [tree_items     |-> <<>>,
     editor_windows |-> [t \in ItemTypes |-> NoEditorWindow],
     slot           |-> "none",
     thrown         |-> "none",
     events         |-> <<>>,
     msgbox         |-> "none",
     status         |-> "running"]

\* The project explorer is not used: an empty container.
NoStudio ==
    /\ entities = <<>>
    /\ suggestion = NoSuggestion
    /\ explorer = NoExplorer

\* No call of partition is being followed line by line.
NoFrame ==
    [pc |-> "idle", begin |-> 0, end |-> 0, bbox |-> Invalidate, dim |-> 0,
     i |-> 0, acc |-> Invalidate,
     best |-> [cost |-> ValueMax, dim |-> 0, pivot |-> 0],
     at |-> <<0, 0>>, split_cost |-> 0, written |-> {}, stale |-> FALSE,
     entry |-> [indices |-> <<>>, left_areas |-> <<>>],
     sweep |-> <<>>, ret |-> 0]

\* No pair of calls was made.
NoOrders ==
    [n |-> 0, a |-> <<0, 0>>, b |-> <<0, 0>>,
     ab |-> [ret_a |-> 0, ret_b |-> 0, indices |-> <<>>],
     ba |-> [ret_a |-> 0, ret_b |-> 0, indices |-> <<>>]]

NoRest == NoStudio /\ frame = NoFrame /\ orders = NoOrders

\* No builder has started, the second instance is not used and no call is
\* in progress.
NoUser ==
    /\ todo = <<>>
    /\ leaves = {}
    /\ twin = NoTwin
    /\ threads = <<>>
    /\ interleaved = FALSE

\* No caller has started and nothing else is used.
NoCaller == NoUser /\ NoRest

Init ==
    /\ bboxes \in [0 .. (MaxItems - 1) -> Boxes]
    /\ m_max_leaf_size \in 1 .. MaxLeafSize
    /\ m_interior_node_traversal_cost \in 1 .. MaxCost
    /\ m_triangle_intersection_cost \in 1 .. MaxCost
    /\ Constructed
    /\ NoCaller

\* An initialize() that never shrinks the index vector.
InitializeGrowing(size) ==
    /\ m_indices' = InitializeIndices(Max(size, Cardinality(DOMAIN m_indices)))
    /\ call' = [NoCall EXCEPT !.op = "initialize", !.end = size]
    /\ returned' = NoReturn
    /\ size_given' = size
    /\ UNCHANGED <<config, m_left_areas, largest_count, outside>>

\* An initialize() that fills only the slots the resize added.
InitializeNewSlots(size) ==
    /\ m_indices' = [i \in 0 .. (size - 1) |->
                        IF i \in DOMAIN m_indices THEN m_indices[i] ELSE i]
    /\ call' = [NoCall EXCEPT !.op = "initialize", !.end = size]
    /\ returned' = NoReturn
    /\ size_given' = size
    /\ UNCHANGED <<config, m_left_areas, largest_count, outside>>

Initialize(size) ==
    /\ m_indices' = InitializeIndices(size)
    /\ call' = [NoCall EXCEPT !.op = "initialize", !.end = size]
    /\ returned' = NoReturn
    /\ size_given' = size
    /\ UNCHANGED <<config, m_left_areas, largest_count, outside>>

\* A compute_bbox() that keeps the swept areas in the scratch buffer.
ComputeBBoxCallSweeping(begin, end) ==
    /\ begin <= end
    /\ end <= Cardinality(DOMAIN m_indices)
    /\ returned' = [NoReturn EXCEPT
                       !.bbox = ComputeBBox(bboxes, m_indices, begin, end)]
    /\ call' = [NoCall EXCEPT !.op = "compute_bbox",
                              !.begin = begin, !.end = end]
    /\ m_left_areas' =
           LeftSweep(EnsureMinimumSize(m_left_areas, end - begin),
                     Invalidate, 0, bboxes, m_indices, begin, end - begin + 1)
    /\ UNCHANGED <<config, m_indices, size_given, largest_count, outside>>

ComputeBBoxCall(begin, end) ==
    /\ begin <= end
    /\ end <= Cardinality(DOMAIN m_indices)
    /\ returned' = [NoReturn EXCEPT
                       !.bbox = ComputeBBox(bboxes, m_indices, begin, end)]
    /\ call' = [NoCall EXCEPT !.op = "compute_bbox",
                              !.begin = begin, !.end = end]
    /\ UNCHANGED <<config, m_indices, m_left_areas, size_given, largest_count,
                   outside>>

\* What partition(bboxes, begin, end, compute_bbox(bboxes, begin, end))
\* computes on the instance.
PartitionResult(begin, end) ==
    PartitionCall(bboxes, m_indices, m_left_areas, begin, end,
                  ComputeBBox(bboxes, m_indices, begin, end),
                  m_max_leaf_size, m_interior_node_traversal_cost,
                  m_triangle_intersection_cost)

\* What the call leaves in the instance.
PartitionEffect(begin, end, r) ==
    /\ m_indices' = r.indices
    /\ m_left_areas' = r.left_areas
    /\ call' = [op |-> "partition", begin |-> begin, end |-> end,
                ret |-> r.ret, evaluated |-> r.evaluated,
                best |-> r.best, split_cost |-> r.split_cost]
    /\ largest_count' = IF r.evaluated
                        THEN Max(largest_count, end - begin)
                        ELSE largest_count
    /\ returned' = NoReturn
    /\ UNCHANGED <<config, size_given>>

PartitionStep(begin, end) ==
    /\ end - begin > 1
    /\ end <= Cardinality(DOMAIN m_indices)
    /\ \E r \in {PartitionResult(begin, end)} : PartitionEffect(begin, end, r)

Partition(begin, end) == PartitionStep(begin, end) /\ UNCHANGED outside

GetItemOrdering ==
    /\ returned' = [NoReturn EXCEPT !.ordering = m_indices]
    /\ call' = [NoCall EXCEPT !.op = "get_item_ordering"]
    /\ UNCHANGED <<config, m_indices, m_left_areas, size_given, largest_count,
                   outside>>

Next ==
    \/ \E size \in 1 .. MaxItems : Initialize(size)
    \/ \E begin \in 0 .. MaxItems, end \in 0 .. MaxItems : Partition(begin, end)
    \/ \E begin \in 0 .. MaxItems, end \in 0 .. MaxItems :
           ComputeBBoxCall(begin, end)
    \/ GetItemOrdering

Spec == Init /\ [][Next]_vars

\* ------------------------------------------------------ a recursive build

\* The builder starts: initialize(size), then the whole range is to split.
BuildStart(size) ==
    /\ size_given = 0
    /\ m_indices' = InitializeIndices(size)
    /\ call' = [NoCall EXCEPT !.op = "initialize", !.end = size]
    /\ returned' = NoReturn
    /\ size_given' = size
    /\ todo' = <<<<0, size>>>>
    /\ leaves' = {}
    /\ UNCHANGED <<config, m_left_areas, largest_count, twin, threads,
                   interleaved, rest>>

\* The builder takes a range: a range of one item is a leaf; otherwise it
\* calls partition, makes a leaf when end is returned and else goes on with
\* [begin, p) and [p, end).
BuildStep ==
    /\ todo # <<>>
    /\ \E begin \in {Head(todo)[1]}, end \in {Head(todo)[2]} :
          IF end - begin > 1
          THEN \E r \in {PartitionResult(begin, end)} :
                  /\ PartitionEffect(begin, end, r)
                  /\ IF r.ret = end
                     THEN /\ todo' = Tail(todo)
                          /\ leaves' = leaves \cup {<<begin, end>>}
                     ELSE /\ todo' = <<<<begin, r.ret>>, <<r.ret, end>>>>
                                         \o Tail(todo)
                          /\ UNCHANGED leaves
          ELSE /\ todo' = Tail(todo)
               /\ leaves' = leaves \cup {<<begin, end>>}
               /\ UNCHANGED instance
    /\ UNCHANGED <<twin, threads, interleaved, rest>>

InitBuild == Init

NextBuild ==
    \/ \E size \in 1 .. MaxItems : BuildStart(size)
    \/ BuildStep

\* A step of the builder, by what it does to the stack: the start pushes
\* the whole range, a step pops a range and pushes its two halves or none.
\* It is enabled exactly when NextBuild is.
BuildProgress ==
    \/ /\ size_given = 0
       /\ \E size \in 1 .. MaxItems : todo' = <<<<0, size>>>>
    \/ /\ todo # <<>>
       /\ \E p \in 0 .. MaxItems :
              todo' = IF p = 0
                      THEN Tail(todo)
                      ELSE <<<<Head(todo)[1], p>>, <<p, Head(todo)[2]>>>>
                               \o Tail(todo)

\* The builder is a sequential program: it goes on while it has a step.
SpecBuild == InitBuild /\ [][NextBuild]_vars /\ WF_todo(BuildProgress)

\* ---------------------------------- two instances given the same calls

\* initialize(size) on both instances.
TwinInitialize(size) ==
    /\ m_indices' = InitializeIndices(size)
    /\ call' = [NoCall EXCEPT !.op = "initialize", !.end = size]
    /\ returned' = NoReturn
    /\ size_given' = size
    /\ twin' = [twin EXCEPT !.indices = InitializeIndices(size)]
    /\ UNCHANGED <<config, m_left_areas, largest_count, callers, threads,
                   interleaved, rest>>

\* partition(bboxes, begin, end, compute_bbox(bboxes, begin, end)) on both
\* instances, the second built with the other implementation of std::sort.
TwinPartition(begin, end) ==
    /\ PartitionStep(begin, end)
    /\ \E r \in {PartitionCallBy("stable", bboxes, twin.indices,
                       twin.left_areas, begin, end,
                       ComputeBBox(bboxes, twin.indices, begin, end),
                       m_max_leaf_size, m_interior_node_traversal_cost,
                       m_triangle_intersection_cost)} :
          twin' = [indices |-> r.indices, left_areas |-> r.left_areas,
                   ret |-> r.ret]
    /\ UNCHANGED <<callers, threads, interleaved, rest>>

InitTwin == Init

NextTwin ==
    \/ \E size \in 1 .. MaxItems : TwinInitialize(size)
    \/ \E begin \in 0 .. MaxItems, end \in 0 .. MaxItems :
           TwinPartition(begin, end)

SpecTwin == InitTwin /\ [][NextTwin]_vars

\* ------------------------------- two calls of partition on one instance

\* The threads calling partition.
Threads == {1, 2}

Other(t) == IF t = 1 THEN 2 ELSE 1

\* The ranges the two calls are made on: [0, 2) and [2, 4) are disjoint,
\* [0, 3) overlaps both.
RaceRanges == {<<0, 2>>, <<2, 4>>, <<0, 3>>}

\* The boxes of the four items: the unit cube or a point box.
RaceBoxes == {Box(Point(0, 0, 0), Point(1, 1, 1)), Box(Point(1, 1, 1), Point(1, 1, 1))}

\* A call about to be made on the range r.
Ready(r) ==
    [pc |-> "call", begin |-> r[1], end |-> r[2], bbox |-> Invalidate,
     dim |-> 0, best |-> [cost |-> ValueMax, dim |-> 0, pivot |-> 0],
     ret |-> 0, range |-> <<>>]

\* The call of thread t is in progress.
Busy(t) == threads[t].pc \notin {"call", "done"}

\* Positions [begin, end) of an index vector, as a sequence.
SubRange(ind, begin, end) == [k \in 1 .. (end - begin) |-> ind[begin + k - 1]]

\* The instance after initialize(4), the default costs, max_leaf_size = 1,
\* and two threads about to call partition.
InitRace ==
    /\ bboxes \in [0 .. 3 -> RaceBoxes]
    /\ m_max_leaf_size = 1
    /\ m_interior_node_traversal_cost = 1
    /\ m_triangle_intersection_cost = 1
    /\ m_indices = InitializeIndices(4)
    /\ m_left_areas = <<>>
    /\ call = [NoCall EXCEPT !.op = "initialize", !.end = 4]
    /\ returned = NoReturn
    /\ size_given = 4
    /\ largest_count = 0
    /\ todo = <<>>
    /\ leaves = {}
    /\ twin = NoTwin
    /\ threads \in {[t \in Threads |-> Ready(r[t])] : r \in [Threads -> RaceRanges]}
    /\ interleaved = FALSE
    /\ NoRest

\* What every step of a call leaves alone.
RaceFrame(t) ==
    /\ interleaved' = (interleaved \/ Busy(Other(t)))
    /\ UNCHANGED <<config, call, returned, size_given, largest_count,
                   callers, twin, rest>>

\* Lines 139-151: the caller computes the box of the range, then partition
\* returns end for a small range or sizes the scratch buffer.
RaceEnter(t) ==
    /\ threads[t].pc = "call"
    /\ \E begin \in {threads[t].begin}, end \in {threads[t].end} :
          IF IsSmallLeaf(end - begin, m_max_leaf_size)
          THEN /\ threads' = [threads EXCEPT
                                 ![t].pc = "done", ![t].ret = end,
                                 ![t].range = SubRange(m_indices, begin, end)]
               /\ UNCHANGED <<m_indices, m_left_areas>>
          ELSE /\ threads' = [threads EXCEPT
                                 ![t].pc = "left",
                                 ![t].bbox = ComputeBBox(bboxes, m_indices,
                                                         begin, end)]
               /\ m_left_areas' = GrowLeftAreas(m_left_areas, end - begin)
               /\ UNCHANGED m_indices
    /\ RaceFrame(t)

\* The left sweep written one slot short.
RaceSortLeftShort(t) ==
    /\ threads[t].pc = "left"
    /\ \E begin \in {threads[t].begin}, end \in {threads[t].end} :
          \E ind \in {SortRangeBy("unstable", m_indices, begin, end - begin,
                                   bboxes, threads[t].dim)} :
              /\ m_indices' = ind
              /\ m_left_areas' = LeftSweep(m_left_areas, Invalidate, 0, bboxes,
                                           ind, begin, end - begin - 1)
    /\ threads' = [threads EXCEPT ![t].pc = "right"]
    /\ RaceFrame(t)

\* Lines 155-167: sort the range along the axis, then the left sweep.
RaceSortLeft(t) ==
    /\ threads[t].pc = "left"
    /\ \E begin \in {threads[t].begin}, end \in {threads[t].end} :
          \E ind \in {SortRangeBy("unstable", m_indices, begin, end - begin,
                                   bboxes, threads[t].dim)} :
              /\ m_indices' = ind
              /\ m_left_areas' = LeftSweep(m_left_areas, Invalidate, 0, bboxes,
                                           ind, begin, end - begin)
    /\ threads' = [threads EXCEPT ![t].pc = "right"]
    /\ RaceFrame(t)

\* Lines 169-189: the right sweep, then the next axis.
RaceRight(t) ==
    /\ threads[t].pc = "right"
    /\ \E begin \in {threads[t].begin}, end \in {threads[t].end} :
          threads' = [threads EXCEPT
              ![t].best = RightSweep(threads[t].best, Invalidate,
                                     end - begin - 1, m_left_areas, bboxes,
                                     m_indices, begin, end - begin,
                                     threads[t].dim),
              ![t].dim = @ + 1,
              ![t].pc = IF threads[t].dim + 1 < Dimension
                        THEN "left" ELSE "finish"]
    /\ UNCHANGED <<m_indices, m_left_areas>>
    /\ RaceFrame(t)

\* Lines 191-207: the leaf test, the sort by the chosen axis, the return.
RaceFinish(t) ==
    /\ threads[t].pc = "finish"
    /\ \E begin \in {threads[t].begin}, end \in {threads[t].end},
          best \in {threads[t].best} :
          IF LeafIsCheaper((end - begin) * m_triangle_intersection_cost,
                           SplitCost(best.cost,
                                     HalfSurfaceArea(threads[t].bbox),
                                     m_interior_node_traversal_cost,
                                     m_triangle_intersection_cost))
          THEN /\ threads' = [threads EXCEPT
                                 ![t].pc = "done", ![t].ret = end,
                                 ![t].range = SubRange(m_indices, begin, end)]
               /\ UNCHANGED m_indices
          ELSE \E ind \in {IF NeedsResort(best.dim)
                            THEN SortRangeBy("unstable", m_indices, begin,
                                             end - begin, bboxes, best.dim)
                            ELSE m_indices} :
                  /\ m_indices' = ind
                  /\ threads' = [threads EXCEPT
                                    ![t].pc = "done",
                                    ![t].ret = SplitPoint(begin, best.pivot),
                                    ![t].range = SubRange(ind, begin, end)]
    /\ UNCHANGED m_left_areas
    /\ RaceFrame(t)

NextRace ==
    \E t \in Threads :
        \/ RaceEnter(t)
        \/ RaceSortLeft(t)
        \/ RaceRight(t)
        \/ RaceFinish(t)

SpecRace == InitRace /\ [][NextRace]_vars

\* ------------------------------------ one call of partition, line by line

\* What the steps of the call leave alone.
SweepFrame ==
    UNCHANGED <<config, returned, size_given, callers, twin, threads,
                interleaved, studio, orders>>

\* initialize(size), between two calls.
SweepInitialize(size) ==
    /\ frame.pc \in {"idle", "done"}
    /\ m_indices' = InitializeIndices(size)
    /\ call' = [NoCall EXCEPT !.op = "initialize", !.end = size]
    /\ size_given' = size
    /\ frame' = NoFrame
    /\ UNCHANGED <<m_left_areas, largest_count>>
    /\ UNCHANGED <<config, returned, callers, twin, threads, interleaved,
                   studio, orders>>

\* Lines 139-151: the caller computes the box of the range and calls;
\* partition returns end for a small range, or sizes the scratch buffer and
\* sets its locals.
SweepEnter(begin, end) ==
    /\ frame.pc \in {"idle", "done"}
    /\ end - begin > 1
    /\ end <= Cardinality(DOMAIN m_indices)
    /\ \E f \in {[NoFrame EXCEPT
                     !.begin = begin, !.end = end,
                     !.entry = [indices |-> m_indices,
                                left_areas |-> m_left_areas]]} :
          IF IsSmallLeaf(end - begin, m_max_leaf_size)
          THEN /\ frame' = [f EXCEPT !.pc = "done", !.ret = end]
               /\ call' = [NoCall EXCEPT !.op = "partition", !.begin = begin,
                                         !.end = end, !.ret = end]
               /\ UNCHANGED m_left_areas
          ELSE /\ frame' = [f EXCEPT
                               !.pc = "sort",
                               !.bbox = ComputeBBox(bboxes, m_indices,
                                                    begin, end)]
               /\ m_left_areas' = GrowLeftAreas(m_left_areas, end - begin)
               /\ UNCHANGED call
    /\ UNCHANGED <<m_indices, largest_count>>
    /\ SweepFrame

\* Lines 155-162: the range is sorted along the axis and the accumulator
\* is emptied.
SweepSort ==
    /\ frame.pc = "sort"
    /\ m_indices' = SortRange(m_indices, frame.begin, frame.end - frame.begin,
                              bboxes, frame.dim)
    /\ frame' = [frame EXCEPT !.pc = "left", !.i = 0, !.acc = Invalidate,
                              !.written = {}]
    /\ UNCHANGED <<m_left_areas, call, largest_count>>
    /\ SweepFrame

\* The left sweep stopping one slot early.
SweepLeftEndsEarly(i, count) == i + 1 < count - 2

\* for (size_t i = 0; i < count - 1; ++i): the loop goes on after slot i.
SweepLeftGoesOn(i, count) == i + 1 < count - 1

\* Lines 163-170: one turn of the left sweep; after the last one the
\* accumulator is emptied for the right sweep.
SweepLeft ==
    /\ frame.pc = "left"
    /\ \E acc \in {Insert(frame.acc, bboxes[m_indices[frame.begin + frame.i]])} :
          /\ m_left_areas' = [m_left_areas EXCEPT
                                 ![frame.i] = HalfSurfaceArea(acc)]
          /\ frame' =
                IF SweepLeftGoesOn(frame.i, frame.end - frame.begin)
                THEN [frame EXCEPT !.acc = acc, !.i = @ + 1,
                                   !.written = @ \cup {frame.i}]
                ELSE [frame EXCEPT !.acc = Invalidate,
                                   !.i = frame.end - frame.begin - 1,
                                   !.written = @ \cup {frame.i},
                                   !.pc = "right"]
    /\ UNCHANGED <<m_indices, call, largest_count>>
    /\ SweepFrame

\* The loop over the axes leaving out the last axis.
AxesStopEarly(dim) == dim + 1 < Dimension - 1

\* for (size_t dim = 0; dim < Tree::Dimension; ++dim): the loop goes on
\* after axis dim.
AxesGoOn(dim) == dim + 1 < Dimension

\* Lines 171-188: one turn of the right sweep; after the last one the loop
\* over the axes goes on.
SweepRight ==
    /\ frame.pc = "right"
    /\ \E i \in {frame.i}, count \in {frame.end - frame.begin} :
       \E acc \in {Insert(frame.acc, bboxes[m_indices[frame.begin + i]])} :
       \E split_cost \in {LeftCost(m_left_areas, i) + RightCost(acc, count, i)} :
       \E f \in {[frame EXCEPT
                     !.acc = acc, !.i = i - 1,
                     !.at = <<frame.dim, i>>, !.split_cost = split_cost,
                     !.stale = @ \/ (i - 1) \notin frame.written,
                     !.best = IF KeepsLowest(@.cost, split_cost)
                              THEN [cost |-> split_cost, dim |-> frame.dim,
                                    pivot |-> i]
                              ELSE @,
                     !.sweep = IF KeepsLowest(frame.best.cost, split_cost)
                               THEN SubRange(m_indices, frame.begin, frame.end)
                               ELSE @]} :
          frame' = IF i - 1 > 0
                   THEN f
                   ELSE [f EXCEPT !.dim = @ + 1,
                                  !.pc = IF AxesGoOn(frame.dim)
                                         THEN "sort" ELSE "finish"]
    /\ UNCHANGED <<m_indices, m_left_areas, call, largest_count>>
    /\ SweepFrame

\* Lines 191-207: the leaf test, the sort by the chosen axis, the return.
SweepFinish ==
    /\ frame.pc = "finish"
    /\ \E begin \in {frame.begin}, end \in {frame.end}, best \in {frame.best} :
       \E split_cost \in {SplitCost(best.cost, HalfSurfaceArea(frame.bbox),
                                    m_interior_node_traversal_cost,
                                    m_triangle_intersection_cost)} :
       \E ret \in {IF LeafIsCheaper((end - begin) * m_triangle_intersection_cost,
                                    split_cost)
                   THEN end ELSE SplitPoint(begin, best.pivot)} :
          /\ m_indices' = IF ret < end /\ NeedsResort(best.dim)
                          THEN SortRange(m_indices, begin, end - begin,
                                         bboxes, best.dim)
                          ELSE m_indices
          /\ frame' = [frame EXCEPT !.pc = "done", !.ret = ret]
          /\ call' = [op |-> "partition", begin |-> begin, end |-> end,
                      ret |-> ret, evaluated |-> TRUE, best |-> best,
                      split_cost |-> split_cost]
          /\ largest_count' = Max(largest_count, end - begin)
    /\ UNCHANGED m_left_areas
    /\ SweepFrame

InitSweep == Init

NextSweep ==
    \/ \E size \in 1 .. MaxItems : SweepInitialize(size)
    \/ \E begin \in 0 .. MaxItems, end \in 0 .. MaxItems : SweepEnter(begin, end)
    \/ SweepSort
    \/ SweepLeft
    \/ SweepRight
    \/ SweepFinish

SpecSweep == InitSweep /\ [][NextSweep]_vars

\* ------------------------------------------ calls on too small a range

\* The process runs: no assertion has failed.
Alive == call.op # "assert"

\* partition(bboxes, begin, end, bbox) on a range of less than two items.
\* Line 140 asserts count > 1: a build with assertions stops there; a
\* build without them (NDEBUG) goes on to the short-circuit of line 143.
PartitionTooSmall(begin, end) ==
    /\ begin <= end
    /\ end - begin <= 1
    /\ end <= Cardinality(DOMAIN m_indices)
    /\ \/ /\ call' = [NoCall EXCEPT !.op = "assert", !.begin = begin,
                                    !.end = end]
          /\ returned' = NoReturn
          /\ UNCHANGED <<config, m_indices, m_left_areas, size_given,
                         largest_count>>
       \/ \E r \in {PartitionResult(begin, end)} : PartitionEffect(begin, end, r)
    /\ UNCHANGED outside

InitContract == Init

NextContract ==
    /\ Alive
    /\ \/ \E size \in 1 .. MaxItems : Initialize(size)
       \/ \E begin \in 0 .. MaxItems, end \in 0 .. MaxItems :
              Partition(begin, end)
       \/ \E begin \in 0 .. MaxItems, end \in 0 .. MaxItems :
              PartitionTooSmall(begin, end)

SpecContract == InitContract /\ [][NextContract]_vars

\* ------------------------------------------ two calls on disjoint ranges

\* The number of items of the instance the two calls are made on.
PairItems == MaxItems + 2

\* The most pairs of calls made on the instance.
MaxPairs == 2

\* The ranges of more than one item.
PairRanges ==
    {r \in (0 .. PairItems) \X (0 .. PairItems) : r[2] - r[1] > 1}

\* The range a lies before the range b.
Disjoint(a, b) == a[2] <= b[1]

\* partition on the range r of an instance holding ind and areas.
CallOn(r, ind, areas) ==
    PartitionCall(bboxes, ind, areas, r[1], r[2],
                  ComputeBBox(bboxes, ind, r[1], r[2]),
                  m_max_leaf_size, m_interior_node_traversal_cost,
                  m_triangle_intersection_cost)

\* The caller partitions two disjoint ranges, a then b; the other order,
\* b then a, from the same instance, is recorded beside it.
BothOrders(a, b) ==
    /\ orders.n < MaxPairs
    /\ Disjoint(a, b)
    /\ \E a1 \in {CallOn(a, m_indices, m_left_areas)},
          b1 \in {CallOn(b, m_indices, m_left_areas)} :
       \E b2 \in {CallOn(b, a1.indices, a1.left_areas)},
          a2 \in {CallOn(a, b1.indices, b1.left_areas)} :
          /\ m_indices' = b2.indices
          /\ m_left_areas' = b2.left_areas
          /\ call' = [op |-> "partition", begin |-> b[1], end |-> b[2],
                      ret |-> b2.ret, evaluated |-> b2.evaluated,
                      best |-> b2.best, split_cost |-> b2.split_cost]
          /\ largest_count' =
                Max(Max(largest_count,
                        IF a1.evaluated THEN a[2] - a[1] ELSE 0),
                    IF b2.evaluated THEN b[2] - b[1] ELSE 0)
          /\ orders' = [n |-> orders.n + 1, a |-> a, b |-> b,
                        ab |-> [ret_a |-> a1.ret, ret_b |-> b2.ret,
                                indices |-> b2.indices],
                        ba |-> [ret_a |-> a2.ret, ret_b |-> b1.ret,
                                indices |-> a2.indices]]
    /\ UNCHANGED <<config, returned, size_given, callers, twin, threads,
                   interleaved, studio, frame>>

\* The instance after initialize(PairItems), with max_leaf_size = 1 and
\* the default costs.
InitOrders ==
    /\ bboxes \in [0 .. (PairItems - 1) -> Boxes]
    /\ m_max_leaf_size = 1
    /\ m_interior_node_traversal_cost = 1
    /\ m_triangle_intersection_cost = 1
    /\ m_indices = InitializeIndices(PairItems)
    /\ m_left_areas = <<>>
    /\ call = [NoCall EXCEPT !.op = "initialize", !.end = PairItems]
    /\ returned = NoReturn
    /\ size_given = PairItems
    /\ largest_count = 0
    /\ NoCaller

NextOrders == \E a \in PairRanges, b \in PairRanges : BothOrders(a, b)

SpecOrders == InitOrders /\ [][NextOrders]_vars

\* ------------------------------------------- two clusters far apart along X

\* A box moved by dx along axis 0.
Shifted(b, dx) ==
    Box([b.min EXCEPT ![0] = @ + dx], [b.max EXCEPT ![0] = @ + dx])

\* The boxes of the cluster at the origin: two unit cubes and two point
\* boxes, all within [0, 2] on every axis.
NearCluster ==
    {Box(Point(0, 0, 0), Point(1, 1, 1)), Box(Point(1, 1, 1), Point(2, 2, 2)),
     Box(Point(0, 0, 0), Point(0, 0, 0)), Box(Point(1, 1, 1), Point(1, 1, 1))}

\* The same boxes far away along axis 0, at the same place along axes 1, 2.
FarCluster == {Shifted(b, 10) : b \in NearCluster}

InitClusters ==
    /\ bboxes \in [0 .. (MaxItems - 1) -> NearCluster \cup FarCluster]
    /\ m_max_leaf_size = 1
    /\ m_interior_node_traversal_cost \in 1 .. MaxCost
    /\ m_triangle_intersection_cost \in 1 .. MaxCost
    /\ Constructed
    /\ NoCaller

NextClusters ==
    \/ \E size \in 1 .. MaxItems : Initialize(size)
    \/ \E begin \in 0 .. MaxItems, end \in 0 .. MaxItems : Partition(begin, end)

SpecClusters == InitClusters /\ [][NextClusters]_vars

\* ------------------------------------------------- the project explorer

\* The largest and the smallest value of an int.
IntMax == 2147483647

IntMin == -IntMax - 1

\* The most entities a container holds.
MaxEntities == 2

\* The decimal digits, in order.
DigitChars == <<"0", "1", "2", "3", "4", "5", "6", "7", "8", "9">>

IsDigit(c) == \E d \in 0 .. 9 : DigitChars[d + 1] = c

DigitValue(c) == CHOOSE d \in 0 .. 9 : DigitChars[d + 1] = c

\* What operator>> skips before a number.
RECURSIVE SkipSpaces(_)
SkipSpaces(s) ==
    IF s # <<>> /\ Head(s) = " " THEN SkipSpaces(Tail(s)) ELSE s

\* The digits operator>> reads, accumulated with the sign applied so that
\* the smallest int is reached without leaving the ints; lim is the bound
\* on the side of the sign, and over records that the number left it.
RECURSIVE ReadDigits(_, _, _)
ReadDigits(s, st, lim) ==
    IF s # <<>> /\ IsDigit(Head(s))
    THEN LET d    == DigitValue(Head(s))
             fits == ~st.over /\ st.value >= (lim + d + 9) \div 10
         IN ReadDigits(Tail(s),
                       [value |-> IF fits THEN st.value * 10 - d ELSE st.value,
                        count |-> st.count + 1,
                        over  |-> ~fits,
                        rest  |-> Tail(s)],
                       lim)
    ELSE [st EXCEPT !.rest = s]

\* from_string<int>(s): the stream extracts an int; a failed extraction
\* (no digit, or a number that is not an int) and characters left unread
\* throw ExceptionStringConversionError.
FromString(s) ==
    LET t      == SkipSpaces(s)
        neg    == t # <<>> /\ Head(t) = "-"
        signed == t # <<>> /\ Head(t) \in {"-", "+"}
        r      == ReadDigits(IF signed THEN Tail(t) ELSE t,
                             [value |-> 0, count |-> 0, over |-> FALSE,
                              rest |-> <<>>],
                             IF neg THEN IntMin ELSE -IntMax)
    IN IF r.count = 0 \/ r.over \/ r.rest # <<>>
       THEN [ok |-> FALSE, value |-> 0]
       ELSE [ok |-> TRUE, value |-> IF neg THEN r.value ELSE -r.value]

\* The decimal digits of n >= 0.
RECURSIVE DigitsOf(_)
DigitsOf(n) ==
    IF n < 10
    THEN <<DigitChars[n + 1]>>
    ELSE DigitsOf(n \div 10) \o <<DigitChars[(n % 10) + 1]>>

\* to_string(n) for an int n: the stream inserts its decimal.
ToString(n) ==
    IF n >= 0
    THEN DigitsOf(n)
    ELSE LET last  == (10 - (n % 10)) % 10
             front == -((n + last) \div 10)
         IN <<"-">> \o (IF front = 0 THEN <<>> ELSE DigitsOf(front))
                    \o <<DigitChars[last + 1]>>

\* std::string::substr(pos, n) and substr(pos), for pos <= size.
Substr(s, pos, n) == SubSeq(s, pos + 1, Min(Len(s), pos + n))

SubstrFrom(s, pos) == SubSeq(s, pos + 1, Len(s))

\* The loop of get_name_suggestion over the entities: max_number.
RECURSIVE MaxNumber(_, _, _)
MaxNumber(prefix, ents, max_number) ==
    IF ents = <<>>
    THEN max_number
    ELSE LET entity_name        == Head(ents)
             entity_name_prefix == Substr(entity_name, 0, Len(prefix))
             number == FromString(SubstrFrom(entity_name, Len(prefix)))
         IN MaxNumber(prefix, Tail(ents),
                      IF /\ entity_name_prefix = prefix
                         /\ number.ok
                         /\ max_number < number.value
                      THEN number.value
                      ELSE max_number)

\* get_name_suggestion(prefix, entities): what the call can produce.
\* max_number + 1 overflows when max_number is the largest int, which is
\* undefined: the sum wraps around, or the build traps.
GetNameSuggestion(prefix, ents) ==
    LET max_number == MaxNumber(prefix, ents, 0)
    IN IF max_number < IntMax
       THEN {[status |-> "returned", prefix |-> prefix,
              name |-> prefix \o ToString(max_number + 1)]}
       ELSE {[status |-> "returned", prefix |-> prefix,
              name |-> prefix \o ToString(IntMin)],
             [status |-> "trapped", prefix |-> prefix, name |-> <<>>]}

\* The prefix slot_add_assembly suggests names with.
Assembly == <<"a", "s", "s", "e", "m", "b", "l", "y">>

\* The prefixes get_name_suggestion is called with.
Prefixes == {Assembly, <<>>}

\* The names entities are drawn from: matching prefixes with small, signed,
\* padded, negative, largest and too large numbers, non-numeric suffixes,
\* the bare prefix, another prefix and a bare number.
Names ==
    {Assembly \o n :
        n \in {<<"1">>, <<"3">>, <<"0", "3">>, <<"+", "2">>, <<"-", "5">>,
               <<"_", "i">>, <<"3", "x">>, <<>>,
               ToString(IntMax), ToString(IntMax - 1), ToString(IntMin),
               ToString(IntMax) \o <<"0">>}}
        \cup {<<"o", "b", "j", "e", "c", "t">>, <<"7">>}

\* The partitioner and its users.
partitioner == <<instance, callers, twin, threads, interleaved, frame, orders>>

\* The process runs: no trap ended it.
Running == explorer.status = "running"

\* The explorer after slot, which threw what it caught and did events, the
\* calls and signals seen from outside, in their order.
After(e, slot, thrown, events) ==
    [e EXCEPT !.slot = slot, !.thrown = thrown, !.events = events,
              !.msgbox = "none"]

\* The explorer after a trap ended slot.
Crashed(e, slot) ==
    [e EXCEPT !.slot = slot, !.thrown = "none", !.events = <<>>,
              !.msgbox = "none", !.status = "crashed"]

\* get_name_suggestion(prefix, entities) called on the container.
GetNameSuggestionCall(prefix) ==
    /\ Running
    /\ suggestion' \in GetNameSuggestion(prefix, entities)
    /\ explorer' = IF suggestion'.status = "trapped"
                   THEN Crashed(explorer, "none")
                   ELSE explorer
    /\ UNCHANGED <<entities, partitioner>>

\* The tree item of an assembly.
AssemblyItem(name) == [type |-> "ItemAssembly", name |-> name]

\* slot_add_assembly(): a name is suggested, the user keeps it, types
\* another or cancels, an assembly of a non-empty name is inserted into the
\* tree and the scene, and project_modified is emitted.
SlotAddAssembly ==
    /\ Running
    /\ Len(entities) < MaxEntities
    /\ \E r \in GetNameSuggestion(Assembly, entities) :
          /\ suggestion' = r
          /\ IF r.status = "trapped"
             THEN /\ explorer' = Crashed(explorer, "slot_add_assembly")
                  /\ UNCHANGED entities
             ELSE \E assembly_name \in Names \cup {r.name, <<>>} :
                     IF assembly_name # <<>>
                     THEN /\ explorer' =
                               After([explorer EXCEPT !.tree_items =
                                         Append(@, AssemblyItem(assembly_name))],
                                     "slot_add_assembly", "none",
                                     <<"insert_assembly_items",
                                       "project_modified">>)
                          /\ entities' = Append(entities, assembly_name)
                     ELSE /\ explorer' =
                               After(explorer, "slot_add_assembly", "none",
                                     <<"project_modified">>)
                          /\ UNCHANGED entities
    /\ UNCHANGED partitioner

\* The tree of a loaded project: one item per assembly.
LoadedTree(ents) == [k \in 1 .. Len(ents) |-> AssemblyItem(ents[k])]

\* A project is loaded: its scene holds assemblies of any names.
InitStudio ==
    /\ bboxes = <<>>
    /\ m_max_leaf_size = 1
    /\ m_interior_node_traversal_cost = 1
    /\ m_triangle_intersection_cost = 1
    /\ Constructed
    /\ NoUser
    /\ frame = NoFrame
    /\ orders = NoOrders
    /\ entities \in {<<>>} \cup {<<n>> : n \in Names}
    /\ suggestion = NoSuggestion
    /\ explorer = [NoExplorer EXCEPT !.tree_items = LoadedTree(entities)]

NextStudio ==
    \/ \E prefix \in Prefixes : GetNameSuggestionCall(prefix)
    \/ SlotAddAssembly

SpecStudio == InitStudio /\ [][NextStudio]_vars

\* ------------------------------------------------- creating an entity

\* The most entities created in the assembly.
MaxCreated == 2

\* The names display_entity_creation_error titles its message with.
EntityNames ==
    [item_type \in {ItemBSDF, ItemMaterial} |->
        IF item_type = ItemBSDF THEN "BSDF" ELSE "material"]

\* The prefix the name of a new entity of a type is suggested with.
EntityPrefix(item_type) ==
    CASE item_type = ItemBSDF -> <<"b", "s", "d", "f">>
      [] item_type = ItemMaterial ->
            <<"m", "a", "t", "e", "r", "i", "a", "l">>
      [] item_type = ItemSurfaceShader ->
            <<"s", "u", "r", "f", "a", "c", "e", "_",
              "s", "h", "a", "d", "e", "r">>

\* The items of one type among the items of the tree.
ItemsOfType(items, item_type) ==
    LET OfType(it) == it.type = item_type
    IN SelectSeq(items, OfType)

\* The names of the entities of one type of the assembly.
EntitiesOfType(items, item_type) ==
    LET s == ItemsOfType(items, item_type)
    IN [k \in 1 .. Len(s) |-> s[k].name]

\* The entities created in the assembly so far.
Created(items) ==
    LET Entity(it) == it.type \in ItemTypes
    IN Len(SelectSeq(items, Entity))

\* slot_add_bsdf_to_assembly(), slot_add_surface_shader_to_assembly(),
\* slot_add_material_to_assembly(): an editor window of the type is opened,
\* its name field holding a suggested name.
SlotAddEntityToAssembly(item_type) ==
    /\ Running
    /\ ~explorer.editor_windows[item_type].open
    /\ \E r \in GetNameSuggestion(
                    EntityPrefix(item_type),
                    EntitiesOfType(explorer.tree_items, item_type)) :
          explorer' =
              IF r.status = "trapped"
              THEN Crashed(explorer, "slot_add_entity_to_assembly")
              ELSE After([explorer EXCEPT !.editor_windows[item_type] =
                             [open |-> TRUE, name_suggestion |-> r.name]],
                         "slot_add_entity_to_assembly", "none",
                         <<"showNormal">>)
    /\ UNCHANGED <<entities, suggestion, partitioner>>

\* The values an editor window of the type accepts: the suggested name,
\* with every required parameter, with one missing, or with one that names
\* an entity the project does not know.
Values(item_type) ==
    [name   : {explorer.editor_windows[item_type].name_suggestion},
     params : {"complete", "missing", "unknown_entity"}]

\* m_project_builder.insert_bsdf(), insert_material(),
\* insert_surface_shader(): the entity created from the values, or the
\* exception slot_create_entity catches.
InsertEntity(item_type, values) ==
    CASE values.params = "missing" ->
            [thrown |-> "ExceptionDictionaryItemNotFound"]
      [] values.params = "unknown_entity" ->
            [thrown |-> "ExceptionUnknownEntity"]
      [] OTHER ->
            [thrown |-> "none",
             item   |-> [type |-> item_type, name |-> values.name]]

\* display_entity_creation_error(item_type, message): a message box titled
\* with the name of the type. EntityNames has no entry for a surface shader:
\* the lookup finds none and its m_value is read through no entry, which is
\* undefined: the process is ended, or a box of some title is shown.
DisplayEntityCreationError(item_type) ==
    IF item_type \in DOMAIN EntityNames
    THEN {[status |-> "running", msgbox |-> EntityNames[item_type]]}
    ELSE {[status |-> "crashed", msgbox |-> "none"],
          [status |-> "running", msgbox |-> "garbage"]}

\* slot_create_entity(payload, values), called by the editor window of
\* item_type when its form is accepted.
SlotCreateEntity(item_type, values) ==
    /\ Running
    /\ explorer.editor_windows[item_type].open
    /\ Created(explorer.tree_items) < MaxCreated
    /\ LET r == InsertEntity(item_type, values)
       IN IF r.thrown = "none"
          THEN explorer' =
                  After([explorer EXCEPT
                            !.tree_items = Append(@, r.item),
                            !.editor_windows[item_type] = NoEditorWindow],
                        "slot_create_entity", "none",
                        <<"insert_assembly_item", "close",
                          "project_modified">>)
          ELSE \E d \in DisplayEntityCreationError(item_type) :
                  explorer' =
                      IF d.status = "crashed"
                      THEN [Crashed(explorer, "slot_create_entity")
                               EXCEPT !.thrown = r.thrown]
                      ELSE [After(explorer, "slot_create_entity", r.thrown,
                                  <<"msgbox">>)
                               EXCEPT !.msgbox = d.msgbox]
    /\ UNCHANGED <<entities, suggestion, partitioner>>

\* A project of one assembly is loaded.
InitEditor == InitStudio /\ Len(entities) = 1

NextEditor ==
    \/ \E item_type \in ItemTypes : SlotAddEntityToAssembly(item_type)
    \/ \E item_type \in ItemTypes :
          \E values \in Values(item_type) : SlotCreateEntity(item_type, values)

SpecEditor == InitEditor /\ [][NextEditor]_vars

\* ------------------------------------------- what the claims are stated in

Size == Cardinality(DOMAIN m_indices)

IsPartition == call.op = "partition"

Count == call.end - call.begin

\* The items held in positions [lo, hi) of an index vector.
RangeItems(ind, lo, hi) == {ind[i] : i \in lo .. (hi - 1)}

\* The number of positions of [lo, hi) holding item v.
Occurrences(ind, lo, hi, v) == Cardinality({i \in lo .. (hi - 1) : ind[i] = v})

\* The items of the range of the last call.
CallItems == RangeItems(m_indices, call.begin, call.end)

\* The union of the boxes of a non-empty set of items.
UnionBox(S) ==
    Box([d \in Dims |->
            CHOOSE m \in {bboxes[x].min[d] : x \in S} :
                \A x \in S : m <= bboxes[x].min[d]],
        [d \in Dims |->
            CHOOSE m \in {bboxes[x].max[d] : x \in S} :
                \A x \in S : m >= bboxes[x].max[d]])

\* The first i items of S in the order of axis dim: those preceded, under
\* the sort predicate, by fewer than i items of S.
FirstItems(S, dim, i) ==
    {x \in S : Cardinality({y \in S : Predicate(bboxes, dim, y, x)}) < i}

\* The SAH cost of splitting the items S after the first i in the order of
\* axis dim.
CandidateCost(S, dim, i) ==
    LET left == FirstItems(S, dim, i)
    IN HalfSurfaceArea(UnionBox(left)) * i
         + HalfSurfaceArea(UnionBox(S \ left)) * (Cardinality(S) - i)

\* The (axis, pivot) pairs a call on the items S evaluates.
Candidates(S) == Dims \X (1 .. (Cardinality(S) - 1))

IsMinimal(S, c) ==
    \A q \in Candidates(S) :
        CandidateCost(S, c[1], c[2]) <= CandidateCost(S, q[1], q[2])

\* The cost of making the range of the last call a leaf.
LeafCost == Count * m_triangle_intersection_cost

\* The total cost of a split of raw cost c of the range of the last call.
TotalCost(c) ==
    SplitCost(c, HalfSurfaceArea(UnionBox(CallItems)),
              m_interior_node_traversal_cost, m_triangle_intersection_cost)

\* The box of a set of items: the empty box for no item.
SetBox(S) == IF S = {} THEN Invalidate ELSE UnionBox(S)

\* The number of slots of the scratch buffer.
ScratchSize == Cardinality(DOMAIN m_left_areas)

\* ----------------------------------------------------------------- claims

\* C1: every partition call on a range of more than one item returns p with
\* begin < p <= end.
C1_ReturnInRange ==
    IsPartition => call.begin < call.ret /\ call.ret <= call.end

\* A split strictly inside a range of three items was returned.
C1_Witness ==
    /\ IsPartition
    /\ Count = 3
    /\ call.begin < call.ret
    /\ call.ret < call.end

\* C2: after initialize(N) and any sequence of partition calls, the index
\* array holds every index of 0 .. N-1 exactly once.
C2_IndicesArePermutation ==
    /\ DOMAIN m_indices = 0 .. (Size - 1)
    /\ \A v \in 0 .. (Size - 1) : Occurrences(m_indices, 0, Size, v) = 1

\* A partition call has reordered a three-item array.
C2_Witness ==
    /\ IsPartition
    /\ Size = 3
    /\ call.ret < call.end
    /\ m_indices # InitializeIndices(Size)

\* C3: a partition call leaves every position outside [begin, end) as it
\* was, whatever it returns.
C3_OutsideRangeUntouched ==
    [][call'.op = "partition" =>
          /\ DOMAIN m_indices' = DOMAIN m_indices
          /\ \A i \in DOMAIN m_indices :
                 (i < call'.begin \/ i >= call'.end) =>
                     m_indices'[i] = m_indices[i]]_vars

\* A call on a proper sub-range has reordered it and the position outside
\* still holds its initial index.
C3_Witness ==
    /\ IsPartition
    /\ Count < Size
    /\ \E i \in call.begin .. (call.end - 1) : m_indices[i] # i
    /\ \A i \in DOMAIN m_indices :
           (i < call.begin \/ i >= call.end) => m_indices[i] = i

\* C4: when partition returns p < end, [begin, p) and [p, end) after the
\* call hold exactly the indices [begin, end) held before it, none twice.
C4_SplitKeepsItems ==
    [][(call'.op = "partition" /\ call'.ret < call'.end) =>
          \A v \in 0 .. (MaxItems - 1) :
              /\ Occurrences(m_indices', call'.begin, call'.ret, v)
                   + Occurrences(m_indices', call'.ret, call'.end, v)
                     = Occurrences(m_indices, call'.begin, call'.end, v)
              /\ Occurrences(m_indices', call'.begin, call'.ret, v)
                   + Occurrences(m_indices', call'.ret, call'.end, v) <= 1]_vars

\* A split of three items was returned with the range reordered.
C4_Witness ==
    /\ IsPartition
    /\ Count = 3
    /\ call.ret < call.end
    /\ \E i \in call.begin .. (call.end - 1) : m_indices[i] # i

\* C5: when end - begin <= max_leaf_size, partition returns end without
\* evaluating any axis, leaving the index array and the scratch buffer as
\* they were.
C5_SmallRangeIsLeaf ==
    [][(call'.op = "partition"
          /\ call'.end - call'.begin <= m_max_leaf_size) =>
          /\ call'.ret = call'.end
          /\ ~call'.evaluated
          /\ m_indices' = m_indices
          /\ m_left_areas' = m_left_areas]_vars

\* A short-circuited call, after an earlier call filled the scratch buffer
\* and reordered the array.
C5_Witness ==
    /\ IsPartition
    /\ Count <= m_max_leaf_size
    /\ call.ret = call.end
    /\ ~call.evaluated
    /\ Cardinality(DOMAIN m_left_areas) > 0
    /\ m_indices # InitializeIndices(Size)

\* C6: when all boxes of the range coincide with zero half surface area and
\* count > max_leaf_size, the split cost is finite and partition returns end.
C6_CoincidentRangeIsLeaf ==
    (/\ IsPartition
     /\ call.evaluated
     /\ \A x, y \in CallItems : bboxes[x] = bboxes[y]
     /\ HalfSurfaceArea(UnionBox(CallItems)) = 0) =>
        /\ call.split_cost.kind = "fin"
        /\ call.ret = call.end

\* C7: whenever partition returns end, either count <= max_leaf_size or the
\* leaf cost is <= the total split cost of every (axis, pivot) evaluated.
C7_LeafNoDearerThanAnySplit ==
    (IsPartition /\ call.ret = call.end) =>
        \/ Count <= m_max_leaf_size
        \/ \A q \in Candidates(CallItems) :
               LessEq(LeafCost, TotalCost(CandidateCost(CallItems, q[1], q[2])))

\* Three items were evaluated, with candidate splits of different costs,
\* and the leaf was kept.
C7_Witness ==
    /\ IsPartition
    /\ call.evaluated
    /\ call.ret = call.end
    /\ Count = 3
    /\ \E q \in Candidates(CallItems) :
           CandidateCost(CallItems, q[1], q[2]) > call.best.cost

\* C8: when count > max_leaf_size, partition returns end if leaf_cost <= the
\* total cost of the best split, and returns a split only when leaf_cost is
\* strictly greater than it.
C8_SplitOnlyWhenStrictlyCheaper ==
    (IsPartition /\ call.evaluated) =>
        /\ LessEq(LeafCost, call.split_cost) => call.ret = call.end
        /\ call.ret < call.end => Greater(LeafCost, call.split_cost)

\* C9: when partition returns p < end, the chosen (axis, pivot = p - begin)
\* has the minimum split cost over all axes and all pivot positions.
C9_ChosenSplitIsMinimal ==
    (IsPartition /\ call.ret < call.end) =>
        /\ call.best.pivot = call.ret - call.begin
        /\ call.best.cost
             = CandidateCost(CallItems, call.best.dim, call.best.pivot)
        /\ IsMinimal(CallItems, <<call.best.dim, call.best.pivot>>)

\* A split of three items on an axis other than the first, with a dearer
\* candidate on the first axis.
C9_Witness ==
    /\ IsPartition
    /\ call.ret < call.end
    /\ Count = 3
    /\ call.best.dim > 0
    /\ \A i \in 1 .. 2 : CandidateCost(CallItems, 0, i) > call.best.cost

\* C10 as stated: among the candidates of minimum cost, partition selects
\* the one on the earliest axis and, within it, at the earliest position
\* (stated for the calls whose total split cost is finite).
C10_EarliestAxisEarliestPosition ==
    (IsPartition /\ call.evaluated /\ call.split_cost.kind = "fin") =>
        \A q \in Candidates(CallItems) :
            IsMinimal(CallItems, q) =>
                \/ call.best.dim < q[1]
                \/ call.best.dim = q[1] /\ call.best.pivot <= q[2]

\* C10 as amended: among the candidates of minimum cost, partition selects
\* the one on the earliest axis and, within it, at the latest position (the
\* first the right-to-left sweep meets).
C10_EarliestAxisLatestPosition ==
    (IsPartition /\ call.evaluated) =>
        /\ IsMinimal(CallItems, <<call.best.dim, call.best.pivot>>)
        /\ \A q \in Candidates(CallItems) :
               IsMinimal(CallItems, q) =>
                   \/ call.best.dim < q[1]
                   \/ call.best.dim = q[1] /\ call.best.pivot >= q[2]

\* The minimum cost is shared by two positions of the winning axis and by a
\* later axis.
C10_Witness ==
    /\ IsPartition
    /\ call.evaluated
    /\ Count = 3
    /\ \E i \in 1 .. 2 :
           /\ i < call.best.pivot
           /\ IsMinimal(CallItems, <<call.best.dim, i>>)
    /\ \E q \in Candidates(CallItems) :
           q[1] > call.best.dim /\ IsMinimal(CallItems, q)

\* C11: when partition returns p < end, [begin, end) is sorted by the sort
\* predicate of the winning axis, and every item of [begin, p) precedes or
\* equals every item of [p, end) along that axis.
C11_SplitRangeSorted ==
    (IsPartition /\ call.ret < call.end) =>
        /\ \A i \in call.begin .. (call.end - 1) :
               \A j \in (i + 1) .. (call.end - 1) :
                   Predicate(bboxes, call.best.dim, m_indices[i], m_indices[j])
        /\ \A i \in call.begin .. (call.ret - 1) :
               \A j \in call.ret .. (call.end - 1) :
                   Center2(bboxes[m_indices[i]], call.best.dim)
                       <= Center2(bboxes[m_indices[j]], call.best.dim)

\* A split of three items won by the middle axis, whose order differs from
\* the order of the last axis the loop left behind.
C11_Witness ==
    /\ IsPartition
    /\ call.ret < call.end
    /\ Count = 3
    /\ call.best.dim = 1
    /\ SortRange(m_indices, call.begin, Count, bboxes, Dimension - 1)
           # m_indices

\* C14: initialize(size) sets the index array to [0, 1, ..., size - 1]
\* whatever it held before.
C14_InitializeIsIdentity ==
    [][call'.op = "initialize" =>
          /\ DOMAIN m_indices' = 0 .. (call'.end - 1)
          /\ \A i \in 0 .. (call'.end - 1) : m_indices'[i] = i]_vars

\* initialize(2) on an instance that had partitioned three items.
C14_Witness ==
    /\ call.op = "initialize"
    /\ size_given = 2
    /\ largest_count = 3
    /\ m_indices = InitializeIndices(2)

\* C15: get_item_ordering() returns an array of exactly the size last given
\* to initialize.
C15_OrderingHasGivenSize ==
    call.op = "get_item_ordering" =>
        Cardinality(DOMAIN returned.ordering) = size_given

\* The ordering of two items, reordered by a partition call, on an instance
\* that was earlier initialized for three items.
C15_Witness ==
    /\ call.op = "get_item_ordering"
    /\ size_given = 2
    /\ largest_count = 3
    /\ returned.ordering # InitializeIndices(2)

\* C16: compute_bbox(begin, end) returns the box of the set of items held in
\* [begin, end), whatever their arrangement; a partition call on a range
\* leaves the box compute_bbox returns for it as it was.
C16_BBoxOfItemSet ==
    [][/\ call'.op = "compute_bbox" =>
              returned'.bbox
                  = SetBox(RangeItems(m_indices', call'.begin, call'.end))
       /\ call'.op = "partition" =>
              ComputeBBox(bboxes', m_indices', call'.begin, call'.end)
                  = ComputeBBox(bboxes, m_indices, call'.begin, call'.end)]_vars

\* The box of three items, not all alike, in an order partition produced.
C16_Witness ==
    /\ call.op = "compute_bbox"
    /\ Count = 3
    /\ m_indices # InitializeIndices(Size)
    /\ \E x, y \in CallItems : bboxes[x] # bboxes[y]
    /\ returned.bbox = UnionBox(CallItems)

\* C17: compute_bbox leaves the index array, the scratch buffer and the box
\* array as they were.
C17_ComputeBBoxChangesNothing ==
    [][call'.op = "compute_bbox" =>
          /\ m_indices' = m_indices
          /\ m_left_areas' = m_left_areas
          /\ bboxes' = bboxes]_vars

\* compute_bbox on a non-empty range of an instance whose index array was
\* reordered and whose scratch buffer was filled.
C17_Witness ==
    /\ call.op = "compute_bbox"
    /\ Count > 0
    /\ ScratchSize > 0
    /\ m_indices # InitializeIndices(Size)

\* C18: the scratch buffer never shrinks, and after every partition call
\* that passes the leaf short-circuit it has at least count - 1 slots for
\* the largest count processed so far.
C18_ScratchOnlyGrows ==
    [][/\ Cardinality(DOMAIN m_left_areas')
              >= Cardinality(DOMAIN m_left_areas)
       /\ (call'.op = "partition" /\ call'.evaluated) =>
              Cardinality(DOMAIN m_left_areas') >= largest_count' - 1]_vars

\* Two items were evaluated after three had been: the scratch buffer still
\* has the two slots of the larger call.
C18_Witness ==
    /\ IsPartition
    /\ call.evaluated
    /\ Count = 2
    /\ largest_count = 3
    /\ ScratchSize = 2

\* The items of the range of the last call lying in the cluster at the
\* origin, and those lying in the far cluster.
NearItems == {x \in CallItems : bboxes[x] \in NearCluster}

FarItems == {x \in CallItems : bboxes[x] \in FarCluster}

\* The last call partitioned a range holding items of both clusters.
TwoClusters == IsPartition /\ NearItems # {} /\ FarItems # {}

\* A box with a positive extent along every axis.
IsProper(b) == \A d \in Dims : b.min[d] < b.max[d]

\* The split separates the two clusters exactly, along axis 0.
SeparatesClusters ==
    /\ call.best.dim = 0
    /\ RangeItems(m_indices, call.begin, call.ret) = NearItems
    /\ RangeItems(m_indices, call.ret, call.end) = FarItems

LeavesOf(v) == {l \in leaves : v \in RangeItems(m_indices, l[1], l[2])}

\* The build has ended with every item in exactly one leaf.
BuildDone ==
    /\ size_given > 0
    /\ todo = <<>>
    /\ \A v \in 0 .. (size_given - 1) : Cardinality(LeavesOf(v)) = 1

\* C12: a recursive build over partition terminates, with every item index
\* in exactly one leaf.
C12_BuildTerminates == <>BuildDone

\* A build of three items ended with one leaf per item.
C12_Witness ==
    /\ BuildDone
    /\ size_given = 3
    /\ Cardinality(leaves) = 3

\* C13: two instances given the same box array, configuration and calls
\* return the same value from every partition call and hold identical
\* index arrays after every call.
C13_TwinsAgree ==
    /\ twin.indices = m_indices
    /\ IsPartition => twin.ret = call.ret

\* Both instances split three items of which two have the same centroid
\* along the winning axis, and reordered them.
C13_Witness ==
    /\ IsPartition
    /\ Count = 3
    /\ call.ret < call.end
    /\ twin.ret = call.ret
    /\ twin.indices # InitializeIndices(Size)
    /\ \E x, y \in CallItems :
           /\ x # y
           /\ Center2(bboxes[x], call.best.dim)
                  = Center2(bboxes[y], call.best.dim)

\* Both calls have returned.
BothDone == \A t \in Threads : threads[t].pc = "done"

\* The call of thread t made alone on an instance holding the index vector
\* ind, with a scratch buffer of its own.
Alone(t, ind) ==
    PartitionCall(bboxes, ind, <<>>, threads[t].begin, threads[t].end,
                  ComputeBBox(bboxes, ind, threads[t].begin, threads[t].end),
                  m_max_leaf_size, m_interior_node_traversal_cost,
                  m_triangle_intersection_cost)

\* What the call of thread t returns and leaves in its range when the two
\* calls are made one after the other, the call of thread first first.
Sequential(t, first) ==
    LET r1 == Alone(first, InitializeIndices(size_given))
        r  == IF t = first THEN r1 ELSE Alone(t, r1.indices)
    IN [ret   |-> r.ret,
        range |-> SubRange(r.indices, threads[t].begin, threads[t].end)]

\* The call of thread t returned a value, or left a range, that it has in
\* neither order of the two calls made one after the other.
Diverged(t) ==
    \A first \in Threads :
        \/ threads[t].ret # Sequential(t, first).ret
        \/ threads[t].range # Sequential(t, first).range

\* C20, safe use: two calls whose steps were not interleaved return, and
\* leave in their ranges, what they do made one after the other, each with
\* a scratch buffer of its own.
C20_SerialCallsAgree ==
    (BothDone /\ ~interleaved) => \A t \in Threads : ~Diverged(t)

\* C20, unsafe use: the steps of two calls on disjoint ranges were
\* interleaved and a call returned what it returns in no sequential
\* execution, having read the other's areas from the scratch buffer.
C20_Witness ==
    /\ BothDone
    /\ interleaved
    /\ threads[1].begin = 0 /\ threads[1].end = 2
    /\ threads[2].begin = 2 /\ threads[2].end = 4
    /\ Diverged(1)
    /\ threads[1].ret # Sequential(1, 1).ret

\* The names of the container that start with prefix, without it.
Suffixes(prefix, ents) ==
    {SubSeq(ents[k], Len(prefix) + 1, Len(ents[k])) :
        k \in {j \in 1 .. Len(ents) :
                  /\ Len(ents[j]) >= Len(prefix)
                  /\ SubSeq(ents[j], 1, Len(prefix)) = prefix}}

\* A numeral without its plus sign, and without its leading zeros.
Unsigned(s) == IF s # <<>> /\ Head(s) = "+" THEN Tail(s) ELSE s

RECURSIVE StripZeros(_)
StripZeros(s) == IF s # <<>> /\ Head(s) = "0" THEN StripZeros(Tail(s)) ELSE s

\* s is the decimal of a positive integer.
IsPositiveInteger(s) ==
    /\ Unsigned(s) # <<>>
    /\ \A k \in 1 .. Len(Unsigned(s)) : IsDigit(Unsigned(s)[k])
    /\ StripZeros(Unsigned(s)) # <<>>

\* a <= b for two decimals without leading zeros, digit by digit.
DecimalLessEq(a, b) ==
    \/ Len(a) < Len(b)
    \/ /\ Len(a) = Len(b)
       /\ \/ a = b
          \/ \E k \in 1 .. Len(a) :
                /\ DigitValue(a[k]) < DigitValue(b[k])
                /\ \A j \in 1 .. (k - 1) : a[j] = b[j]

\* The decimal of n + 1 from the decimal of n, digit by digit.
RECURSIVE Successor(_)
Successor(s) ==
    IF s = <<>>
    THEN <<"1">>
    ELSE LET front == SubSeq(s, 1, Len(s) - 1)
             last  == s[Len(s)]
         IN IF last = "9"
            THEN Successor(front) \o <<"0">>
            ELSE front \o <<DigitChars[DigitValue(last) + 2]>>

\* The positive integer suffixes of the names that start with prefix.
PositiveSuffixes(prefix, ents) ==
    {StripZeros(Unsigned(s)) :
        s \in {x \in Suffixes(prefix, ents) : IsPositiveInteger(x)}}

\* The name C21 describes: prefix, then 1 + the largest positive suffix.
NextName(prefix, ents) ==
    LET P == PositiveSuffixes(prefix, ents)
    IN IF P = {}
       THEN prefix \o <<"1">>
       ELSE prefix \o Successor(CHOOSE m \in P :
                                    \A x \in P : DecimalLessEq(x, m))

\* A step in which get_name_suggestion was called.
Suggested == suggestion' # suggestion \/ entities' # entities

\* C21: get_name_suggestion(prefix, entities) returns prefix followed by the
\* decimal of 1 + the largest positive integer suffix among the names that
\* start with prefix, and prefix followed by 1 when there is none.
C21_SuggestsNextNumber ==
    [][Suggested =>
          /\ suggestion'.status = "returned"
          /\ suggestion'.name = NextName(suggestion'.prefix, entities)]_vars

\* The items of the range of the call taken line by line, and their number.
FrameItems == RangeItems(m_indices, frame.begin, frame.end)

FrameCount == frame.end - frame.begin

\* C22: the split cost partition evaluates for axis d and pivot i is the
\* half surface area of the union of the first i boxes of the range in the
\* order of axis d, times i, plus that of the union of the other count - i
\* boxes, times count - i; and during the right sweep scratch slot i - 1
\* holds the half surface area of the union of the first i boxes.
C22_EvaluatedCostIsSAHCost ==
    /\ frame.at[2] > 0 =>
           frame.split_cost
               = CandidateCost(FrameItems, frame.at[1], frame.at[2])
    /\ frame.pc = "right" =>
           \A i \in 1 .. (FrameCount - 1) :
               m_left_areas[i - 1]
                   = HalfSurfaceArea(
                         UnionBox(FirstItems(FrameItems, frame.dim, i)))

\* In the right sweep of three items, not all alike, along the middle axis,
\* the cost of the split after the second has been evaluated, and neither
\* side is free.
C22_Witness ==
    /\ frame.pc = "right"
    /\ FrameCount = 3
    /\ frame.at = <<1, 2>>
    /\ LeftCost(m_left_areas, 2) > 0
    /\ frame.split_cost > LeftCost(m_left_areas, 2)

\* The call taken line by line, made instead on an instance that holds
\* nothing but the range as it stood at entry, with an empty scratch buffer.
OnRangeAlone ==
    LET clean == [k \in 0 .. (FrameCount - 1) |->
                     frame.entry.indices[frame.begin + k]]
    IN PartitionCall(bboxes, clean, <<>>, 0, FrameCount,
                     ComputeBBox(bboxes, clean, 0, FrameCount),
                     m_max_leaf_size, m_interior_node_traversal_cost,
                     m_triangle_intersection_cost)

\* C23: what partition returns and leaves in [begin, end) depends only on
\* the boxes, the configuration and the indices held in [begin, end) at
\* entry: it is what the call returns and leaves on an instance holding
\* that range alone with an empty scratch buffer, and no scratch slot is
\* read that was not written earlier in the same call for the same axis.
C23_ResultDependsOnRangeOnly ==
    /\ ~frame.stale
    /\ frame.pc = "done" =>
           /\ frame.ret - frame.begin = OnRangeAlone.ret
           /\ SubRange(m_indices, frame.begin, frame.end)
                  = SubRange(OnRangeAlone.indices, 0, FrameCount)

\* A split of the last two of three items, on an instance whose scratch
\* buffer held the areas of an earlier call on all three and whose first
\* slot no longer held item 0.
C23_Witness ==
    /\ frame.pc = "done"
    /\ frame.begin = 1
    /\ FrameCount = 2
    /\ frame.ret < frame.end
    /\ Cardinality(DOMAIN frame.entry.left_areas) = 2
    /\ frame.entry.left_areas[0] # m_left_areas[0]
    /\ frame.entry.indices[0] # 0

\* A step in which partition was called on a range of less than two items.
CalledTooSmall ==
    /\ call'.op \in {"partition", "assert"}
    /\ call'.end - call'.begin <= 1
    /\ call' # call

\* C24 as stated: a call to partition with end - begin <= 1 is rejected by
\* the assertion before the index array or the scratch buffer is modified.
C24_TooSmallIsRejected ==
    [][CalledTooSmall =>
          /\ call'.op = "assert"
          /\ m_indices' = m_indices
          /\ m_left_areas' = m_left_areas]_vars

\* C24 as amended: a call to partition with end - begin <= 1 is rejected by
\* the assertion in a build with assertions and returns end in a build
\* without them; in both it leaves the index array and the scratch buffer
\* as they were and returns no split point.
C24_TooSmallIsNeverSplit ==
    [][CalledTooSmall =>
          /\ call'.op = "assert" \/ call'.ret = call'.end
          /\ m_indices' = m_indices
          /\ m_left_areas' = m_left_areas]_vars

\* A call on the one item in the middle of three, on an instance whose
\* index array was reordered and whose scratch buffer was filled, returned.
C24_Witness ==
    /\ IsPartition
    /\ call.begin = 1
    /\ call.end = 2
    /\ call.ret = 2
    /\ ScratchSize = 2
    /\ m_indices # InitializeIndices(Size)

\* The first n items of the order the range stood in when the right sweep
\* evaluated the winning split cost.
FirstOfSweep(n) == {frame.sweep[k] : k \in 1 .. n}

\* C25: when partition returns p < end, the items in [begin, p) after the
\* final sort are the first p - begin items of the order in which the
\* winning cost was evaluated, whatever the sorts along the later axes did,
\* and the split returned has the cost that was evaluated.
C25_SplitIsTheOneEvaluated ==
    (frame.pc = "done" /\ frame.ret < frame.end) =>
        /\ RangeItems(m_indices, frame.begin, frame.ret)
               = FirstOfSweep(frame.ret - frame.begin)
        /\ frame.best.cost
               = HalfSurfaceArea(UnionBox(RangeItems(m_indices, frame.begin,
                                                     frame.ret)))
                     * (frame.ret - frame.begin)
                 + HalfSurfaceArea(UnionBox(RangeItems(m_indices, frame.ret,
                                                       frame.end)))
                     * (frame.end - frame.ret)

\* A split of three items won by the first axis, along which two of them
\* have the same centroid, after the sort along the last axis had left the
\* range in another order.
C25_Witness ==
    /\ frame.pc = "done"
    /\ frame.ret < frame.end
    /\ FrameCount = 3
    /\ frame.best.dim = 0
    /\ SortRange(m_indices, frame.begin, 3, bboxes, Dimension - 1) # m_indices
    /\ \E x, y \in FrameItems :
           /\ x # y
           /\ Center2(bboxes[x], 0) = Center2(bboxes[y], 0)

\* The call taken line by line evaluated the axes and returned end.
LeafAfterSweep ==
    /\ frame.pc = "done"
    /\ call.evaluated
    /\ frame.ret = frame.end

\* C26: when partition returns end after evaluating the axes, [begin, end)
\* holds the items it held at entry, sorted by the predicate of the last
\* axis.
C26_LeafRangeSortedByLastAxis ==
    LeafAfterSweep =>
        /\ FrameItems
               = RangeItems(frame.entry.indices, frame.begin, frame.end)
        /\ \A i \in frame.begin .. (frame.end - 1) :
               \A j \in (i + 1) .. (frame.end - 1) :
                   Predicate(bboxes, Dimension - 1, m_indices[i], m_indices[j])

\* A range of three items was left a leaf in another order than the one it
\* had at entry.
C26_Witness ==
    /\ LeafAfterSweep
    /\ FrameCount = 3
    /\ SubRange(m_indices, frame.begin, frame.end)
           # SubRange(frame.entry.indices, frame.begin, frame.end)

\* C27: for two disjoint ranges of one instance, partition on the first
\* then on the second gives the same two return values and the same final
\* index array as partition on the second then on the first.
C27_DisjointCallsCommute ==
    /\ orders.ab.ret_a = orders.ba.ret_a
    /\ orders.ab.ret_b = orders.ba.ret_b
    /\ orders.ab.indices = orders.ba.indices

\* Both calls split and reordered their ranges, one of three items and one
\* of two, on an instance that two earlier calls had reordered and whose
\* scratch buffer they had filled.
C27_Witness ==
    /\ orders.n = 2
    /\ orders.a = <<0, 3>>
    /\ orders.b = <<3, 5>>
    /\ orders.ab.ret_a < 3
    /\ orders.ab.ret_b < 5
    /\ orders.ab.indices = m_indices
    /\ m_indices[0] # 0
    /\ m_indices[3] # 3

\* The items of S in ascending order, in positions 0 .. Cardinality(S) - 1.
Ascending(S) ==
    [k \in 0 .. (Cardinality(S) - 1) |->
        CHOOSE x \in S : Cardinality({y \in S : y < x}) = k]

\* The call taken line by line, made instead on an instance that holds the
\* items of the range in ascending order and nothing else.
OnSetAlone ==
    LET clean ==
            Ascending(RangeItems(frame.entry.indices, frame.begin, frame.end))
    IN PartitionCall(bboxes, clean, <<>>, 0, FrameCount,
                     ComputeBBox(bboxes, clean, 0, FrameCount),
                     m_max_leaf_size, m_interior_node_traversal_cost,
                     m_triangle_intersection_cost)

\* C28 as stated: the value partition returns and the order it leaves the
\* range in are those of the call on the same set of items in any other
\* entry order.
C28_ResultDependsOnSetOnly ==
    frame.pc = "done" =>
        /\ frame.ret - frame.begin = OnSetAlone.ret
        /\ SubRange(m_indices, frame.begin, frame.end)
               = SubRange(OnSetAlone.indices, 0, FrameCount)

\* C28 as amended: the value partition returns is that of the call on the
\* same set of items in any other entry order, and so is the order it
\* leaves the range in when the call passes the leaf short-circuit; a call
\* the short-circuit returns from leaves the range in its entry order.
C28_EvaluatedResultDependsOnSetOnly ==
    frame.pc = "done" =>
        /\ frame.ret - frame.begin = OnSetAlone.ret
        /\ SubRange(m_indices, frame.begin, frame.end)
               = IF call.evaluated
                 THEN SubRange(OnSetAlone.indices, 0, FrameCount)
                 ELSE SubRange(frame.entry.indices, frame.begin, frame.end)

\* A split of three items that stood in descending order at entry.
C28_Witness ==
    /\ frame.pc = "done"
    /\ call.evaluated
    /\ frame.ret < frame.end
    /\ SubRange(frame.entry.indices, frame.begin, frame.end) = <<2, 1, 0>>
    /\ SubRange(m_indices, frame.begin, frame.end) # <<2, 1, 0>>

\* The names of the container get_name_suggestion is called on.
ContainerNames == {entities[k] : k \in 1 .. Len(entities)}

\* C29: the name get_name_suggestion(prefix, entities) returns is different
\* from the name of every entity of the container.
C29_SuggestionIsFresh ==
    [][Suggested /\ suggestion'.status = "returned"
          => suggestion'.name \notin ContainerNames]_vars

\* A step of slot_create_entity.
CreateEntityStep ==
    explorer' # explorer /\ explorer'.slot = "slot_create_entity"

\* C30: when entity creation in slot_create_entity fails with a missing
\* required parameter or an unknown entity, no item is inserted into the
\* tree, the editor window is not closed, project_modified is not emitted
\* and an error message is displayed; on success the item is inserted, the
\* editor is closed and project_modified is emitted, in that order.
C30_CreationFailsCleanly ==
    [][CreateEntityStep =>
          IF explorer'.thrown # "none"
          THEN /\ explorer'.tree_items = explorer.tree_items
               /\ explorer'.editor_windows = explorer.editor_windows
               /\ \A k \in 1 .. Len(explorer'.events) :
                     explorer'.events[k] \notin
                         {"insert_assembly_item", "close", "project_modified"}
               /\ \E k \in 1 .. Len(explorer'.events) :
                     explorer'.events[k] = "msgbox"
          ELSE /\ Len(explorer'.tree_items) = Len(explorer.tree_items) + 1
               /\ \E item_type \in ItemTypes :
                     /\ explorer.editor_windows[item_type].open
                     /\ ~explorer'.editor_windows[item_type].open
               /\ explorer'.events =
                     <<"insert_assembly_item", "close", "project_modified">>
    ]_vars

====
